---- MODULE Spec2Model ----
(***************************************************************************)
(* The ADF4350 driver of drivers/ADF4350/ADF4350.c as a state machine: the *)
(* frequency planner adf4350_set_freq, the register write-out              *)
(* adf4350_sync_config over the SPI bus, and the public operations.        *)
(*                                                                         *)
(* ADF4350.h and ADF4350_cfg.h are not among the sources, so the device    *)
(* limits and the bit positions of the register fields are taken from the  *)
(* device's register map.  Frequencies are in units of 125 kHz, so that    *)
(* every product stays within 32 bits; the limits of the R counter and of  *)
(* the modulus are narrowed to 15 and 63 so that the tightening and the    *)
(* spacing-widening branches of the search lie within the small inputs.    *)
(***************************************************************************)
EXTENDS Integers, Sequences, FiniteSets, TLC

(* ---------------- device limits (ADF4350.h) ---------------- *)
ADF4350_MAX_OUT_FREQ == 35200
ADF4350_MIN_OUT_FREQ == 1100
ADF4350_MIN_VCO_FREQ == 17600
ADF4350_MAX_FREQ_45_PRESC == 24000
ADF4350_MAX_FREQ_PFD == 256
ADF4350_MAX_BANDSEL_CLK == 1
ADF4350_MAX_MODULUS == 63
ADF4350_MAX_R_CNT == 15
INT32_MAX == 2147483647

ADF4350_REG0 == 0
ADF4350_REG1 == 1
ADF4350_REG2 == 2
ADF4350_REG3 == 3
ADF4350_REG4 == 4
ADF4350_REG5 == 5

Regs == ADF4350_REG0 .. ADF4350_REG5

(* ---------------- bounds of the model ---------------- *)
\* The number of times one request may widen the channel spacing.
MaxWiden == 1
\* The number of public operations called after adf4350_setup.
MaxCalls == 2
\* The number of bus transfers that fail.
MaxFails == 1

\* The inputs of the public operations and of the platform configuration.
FreqSet == {1099, 9600, 19200, 24001, 35201}
ClkinSet == {200, 500}
ChspcSet == {1, 160}
RefDivFactorSet == {0, 2}
R3UserSet == {0, 1200}

(* ---------------- bit arithmetic on unsigned words ---------------- *)
RECURSIVE BitAnd(_, _)
BitAnd(a, b) ==
  IF a = 0 \/ b = 0 THEN 0
  ELSE (a % 2) * (b % 2) + 2 * BitAnd(a \div 2, b \div 2)

BitOr(a, b) == a + b - BitAnd(a, b)

BitClear(a, b) == a - BitAnd(a, b)

RECURSIVE Pow2(_)
Pow2(n) == IF n = 0 THEN 1 ELSE 2 * Pow2(n - 1)

(* ---------------- register fields (ADF4350.h) ---------------- *)
ADF4350_REG0_FRACT(x) == (x % 4096) * Pow2(3)
ADF4350_REG0_INT(x) == (x % 65536) * Pow2(15)
ADF4350_REG1_MOD(x) == (x % 4096) * Pow2(3)
ADF4350_REG1_PHASE(x) == (x % 4096) * Pow2(15)
ADF4350_REG1_PRESCALER == Pow2(27)
ADF4350_REG2_POWER_DOWN_EN == Pow2(5)
ADF4350_REG2_DOUBLE_BUFF_EN == Pow2(13)
ADF4350_REG2_10BIT_R_CNT(x) == x * Pow2(14)
ADF4350_REG2_RDIV2_EN == Pow2(24)
ADF4350_REG2_RMULT2_EN == Pow2(25)
\* polarity, lock-detect precision and function, charge-pump current, mux-out,
\* noise mode
ADF4350_REG2_USER_MASK ==
  Pow2(6) + Pow2(7) + Pow2(8) + 15 * Pow2(9) + 7 * Pow2(26) + Pow2(29)
\* clock divider, clock-divider mode, cycle-slip reduction
ADF4350_REG3_USER_MASK == 4095 * Pow2(3) + 3 * Pow2(15) + Pow2(18)
ADF4350_REG4_FEEDBACK_FUND == Pow2(23)
ADF4350_REG4_RF_DIV_SEL(x) == x * Pow2(20)
ADF4350_REG4_8BIT_BAND_SEL_CLKDIV(x) == x * Pow2(12)
ADF4350_REG4_RF_OUT_EN == Pow2(5)
\* output power, auxiliary output power/enable/mode, mute till lock
ADF4350_REG4_USER_MASK ==
  3 * Pow2(3) + 3 * Pow2(6) + Pow2(8) + Pow2(9) + Pow2(10)
ADF4350_REG5_LD_PIN_MODE_DIGITAL == Pow2(22)
ADF4350_REG5_RESERVED == 3 * Pow2(19)

VARIABLES
  pdata,        \* adf4350_pdata_lpc, the platform configuration
  st,           \* adf4350_st, the driver state
  pc,           \* where the program is: start, idle, tune, ratio, pack, sync, fault
  op,           \* the public operation in progress, or the last one
  arg,          \* the argument it was called with
  loc,          \* adf4350_set_freq's locals: req, freq, mdiv, prescaler, r_cnt, chspc
  sy,           \* adf4350_sync_config's locals: i, doublebuf
  sret,         \* the return value of the last adf4350_sync_config
  ret,          \* the return value of the last public operation
  bus,          \* the words handed to SPI_TransferData by the last sync call
  entry_hw,     \* history: st.regs_hw when the last sync call was entered
  dev_pending,  \* device: a register 1/4 word was received, register 0 not yet
  repeat,       \* history: the set_freq call repeats the successful one before it
  retry,        \* history: the sync call repeats, same target, an aborted one
  calls,        \* history: the number of public operations called after setup
  fails         \* history: the number of bus transfers that failed

vars ==
  <<pdata, st, pc, op, arg, loc, sy, sret, ret, bus, entry_hw, dev_pending,
    repeat, retry, calls, fails>>

(* ---------------- static initialisation, lines 53-67 ---------------- *)
adf4350_st ==
  [clkin |-> 0, chspc |-> 0, fpfd |-> 0, r0_fract |-> 0, r0_int |-> 0,
   r1_mod |-> 0, r4_rf_div_sel |-> 0,
   regs |-> [j \in Regs |-> 0], regs_hw |-> [j \in Regs |-> 0], val |-> 0]

Init ==
  /\ pdata \in [clkin : {200}, channel_spacing : ChspcSet,
                power_up_frequency : {19200},
                ref_doubler_en : BOOLEAN, ref_div2_en : BOOLEAN,
                ref_div_factor : RefDivFactorSet,
                r2_user_settings : {3648}, r3_user_settings : R3UserSet,
                r4_user_settings : {1048}]
  /\ st = adf4350_st
  /\ pc = "start"
  /\ op = "none"
  /\ arg = 0
  /\ loc = [req |-> 0, freq |-> 0, mdiv |-> 0, prescaler |-> 0, r_cnt |-> 0,
            chspc |-> 0]
  /\ sy = [i |-> 0, doublebuf |-> 0]
  /\ sret = 0
  /\ ret = 0
  /\ bus = << >>
  /\ entry_hw = [j \in Regs |-> 0]
  /\ dev_pending = FALSE
  /\ repeat = FALSE
  /\ retry = FALSE
  /\ calls = 0
  /\ fails = 0

(* ---------------- adf4350_tune_r_cnt, lines 134-146 ---------------- *)
\* The pair <<r_cnt, fpfd>> the function leaves: r_cnt is a uint16_t.
RECURSIVE adf4350_tune_r_cnt(_, _)
adf4350_tune_r_cnt(clkin, r_cnt) ==
  LET r == (r_cnt + 1) % 65536
      fpfd == (clkin * (IF pdata.ref_doubler_en THEN 2 ELSE 1))
                \div (r * (IF pdata.ref_div2_en THEN 2 ELSE 1))
  IN IF fpfd > ADF4350_MAX_FREQ_PFD THEN adf4350_tune_r_cnt(clkin, r)
     ELSE <<r, fpfd>>

(* ---------------- gcd, lines 153-166 ---------------- *)
RECURSIVE gcd_down(_, _, _)
gcd_down(x, y, tmp) ==
  IF (x % tmp) # 0 \/ (y % tmp) # 0 THEN gcd_down(x, y, tmp - 1) ELSE tmp

gcd(x, y) == gcd_down(x, y, IF y > x THEN x ELSE y)


(* ---------------- adf4350_write, lines 78-88 ---------------- *)
\* The four bytes handed to SPI_TransferData, most significant first.
adf4350_write(data) ==
  <<(data \div 16777216) % 256, (data \div 65536) % 256,
    (data \div 256) % 256, data % 256>>

\* The register a transmitted word addresses: its three low bits.
Addr(word) == word.tx[4] % 8

BusAddrs == [k \in 1 .. Len(bus) |-> Addr(bus[k])]

\* A public operation is called: the driver is set up and no call is in
\* progress.
Called ==
  /\ pc = "idle"
  /\ calls < MaxCalls
  /\ calls' = calls + 1
  /\ UNCHANGED fails

(* ---------------- adf4350_set_freq, lines 176-304 ---------------- *)
\* line 185 without its lower bound
OutOfRange_NoMin(freq) == freq > ADF4350_MAX_OUT_FREQ

\* line 185
OutOfRange(freq) ==
  (freq > ADF4350_MAX_OUT_FREQ) \/ (freq < ADF4350_MIN_OUT_FREQ)

\* lines 198-204: the pair <<freq, r4_rf_div_sel>> the loop leaves
RECURSIVE RfDivSel(_, _)
RfDivSel(freq, sel) ==
  IF freq < ADF4350_MIN_VCO_FREQ THEN RfDivSel(freq * 2, sel + 1)
  ELSE <<freq, sel>>

\* lines 233-235
DivRatio(freq, r1_mod, fpfd) ==
  (freq * r1_mod + (IF fpfd > 1 THEN 1 ELSE 0)) \div fpfd

\* lines 243-245; band_sel_div is a uint8_t
BandSelDiv(fpfd) ==
  (IF fpfd % ADF4350_MAX_BANDSEL_CLK > ADF4350_MAX_BANDSEL_CLK \div 2
   THEN fpfd \div ADF4350_MAX_BANDSEL_CLK + 1
   ELSE fpfd \div ADF4350_MAX_BANDSEL_CLK) % 256

\* lines 247-256: the pair <<r0_fract, r1_mod>> after the reduction
Reduce(r0_fract, r1_mod) ==
  IF r0_fract # 0 /\ r1_mod # 0
  THEN LET div_gcd == gcd(r1_mod, r0_fract)
       IN <<r0_fract \div div_gcd, r1_mod \div div_gcd>>
  ELSE <<0, 1>>

\* lines 258-292: the six target registers.  The fields of a register do not
\* overlap, so the | that joins them is a sum.
PackRegs(s, prescaler, r_cnt) ==
  [j \in Regs |->
     CASE j = ADF4350_REG0 ->
            ADF4350_REG0_INT(s.r0_int) + ADF4350_REG0_FRACT(s.r0_fract)
       [] j = ADF4350_REG1 ->
            ADF4350_REG1_PHASE(1) + ADF4350_REG1_MOD(s.r1_mod) + prescaler
       [] j = ADF4350_REG2 ->
            ADF4350_REG2_10BIT_R_CNT(r_cnt)
            + ADF4350_REG2_DOUBLE_BUFF_EN
            + (IF pdata.ref_doubler_en THEN ADF4350_REG2_RMULT2_EN ELSE 0)
            + (IF pdata.ref_div2_en THEN ADF4350_REG2_RDIV2_EN ELSE 0)
            + BitAnd(pdata.r2_user_settings, ADF4350_REG2_USER_MASK)
       [] j = ADF4350_REG3 ->
            BitAnd(pdata.r3_user_settings, ADF4350_REG3_USER_MASK)
       [] j = ADF4350_REG4 ->
            ADF4350_REG4_FEEDBACK_FUND
            + ADF4350_REG4_RF_DIV_SEL(s.r4_rf_div_sel)
            + ADF4350_REG4_8BIT_BAND_SEL_CLKDIV(BandSelDiv(s.fpfd))
            + ADF4350_REG4_RF_OUT_EN
            + BitAnd(pdata.r4_user_settings, ADF4350_REG4_USER_MASK)
       [] OTHER ->
            ADF4350_REG5_LD_PIN_MODE_DIGITAL + ADF4350_REG5_RESERVED]

\* lines 300-303: the frequency the call returns
Achieved(s) ==
  (((s.r0_int * s.r1_mod) + s.r0_fract) * s.fpfd)
    \div (s.r1_mod * Pow2(s.r4_rf_div_sel))

\* lines 185-213: the call, from driver state s, on behalf of operation o.
\* adf4350_setup discards the result and returns 0.
SetFreqBegin(s, freq, o) ==
  /\ op' = o
  /\ arg' = freq
  /\ IF OutOfRange(freq)
     THEN /\ st' = s
          /\ pc' = "idle"
          /\ ret' = IF o = "setup" THEN 0 ELSE -1
          /\ UNCHANGED loc
     ELSE LET d == RfDivSel(freq, 0)
          IN /\ st' = [s EXCEPT !.r4_rf_div_sel = d[2]]
             /\ loc' = [req |-> freq,
                        freq |-> d[1],
                        mdiv |-> IF freq > ADF4350_MAX_FREQ_45_PRESC
                                 THEN 75 ELSE 23,
                        prescaler |-> IF freq > ADF4350_MAX_FREQ_45_PRESC
                                      THEN ADF4350_REG1_PRESCALER ELSE 0,
                        r_cnt |-> IF pdata.ref_div_factor # 0
                                  THEN pdata.ref_div_factor - 1 ELSE 0,
                        chspc |-> s.chspc]
             /\ pc' = "tune"
             /\ UNCHANGED ret
  /\ UNCHANGED <<pdata, sy, sret, bus, entry_hw, dev_pending, retry>>

\* The operation before this one was a frequency request that succeeded.
LastFreqOk ==
  \/ op = "set_freq" /\ ret >= 0
  \/ op = "setup" /\ ~OutOfRange(pdata.power_up_frequency) /\ sret = 0

\* adf4350_out_altvoltage0_frequency, lines 338-341
adf4350_set_freq ==
  /\ Called
  /\ \E freq \in FreqSet :
       /\ repeat' = (LastFreqOk /\ loc.req = freq)
       /\ SetFreqBegin(st, freq, "set_freq")

\* lines 221-228: one pass of the innermost loop body; what it leaves in
\* fpfd, r1_mod, r_cnt and chspc
SearchPass ==
  LET t == adf4350_tune_r_cnt(st.clkin, loc.r_cnt)
      over == t[1] > ADF4350_MAX_R_CNT
  IN [fpfd |-> t[2], r1_mod |-> t[2] \div loc.chspc,
      r_cnt |-> IF over THEN 0 ELSE t[1],
      chspc |-> IF over THEN loc.chspc + 1 ELSE loc.chspc]

SearchUpdate(p, next) ==
  /\ st' = [st EXCEPT !.fpfd = p.fpfd, !.r1_mod = p.r1_mod]
  /\ loc' = [loc EXCEPT !.r_cnt = p.r_cnt, !.chspc = p.chspc]
  /\ pc' = next
  /\ UNCHANGED <<pdata, op, arg, sy, sret, ret, bus, entry_hw, dev_pending,
                 repeat, retry, calls, fails>>

\* line 229: the modulus is too large, tune the counter further
SearchTighten ==
  /\ pc = "tune"
  /\ LET p == SearchPass
     IN /\ p.r_cnt # 0
        /\ p.r1_mod > ADF4350_MAX_MODULUS
        /\ SearchUpdate(p, "tune")

\* lines 223-230: the counter passed its limit, try a higher spacing
SearchWiden ==
  /\ pc = "tune"
  /\ loc.chspc - st.chspc < MaxWiden
  /\ LET p == SearchPass
     IN /\ p.r_cnt = 0
        /\ SearchUpdate(p, "tune")

\* lines 229-230: both loops are left
SearchFound ==
  /\ pc = "tune"
  /\ LET p == SearchPass
     IN /\ p.r_cnt # 0
        /\ p.r1_mod <= ADF4350_MAX_MODULUS
        /\ SearchUpdate(p, "ratio")

\* lines 233-241 with both divisors non-zero
RatioStep ==
  /\ pc = "ratio"
  /\ st.fpfd # 0 /\ st.r1_mod # 0
  /\ LET tmp == DivRatio(loc.freq, st.r1_mod, st.fpfd)
         int == tmp \div st.r1_mod
     IN /\ st' = [st EXCEPT !.r0_fract = tmp % st.r1_mod, !.r0_int = int]
        /\ pc' = IF loc.mdiv > int THEN "tune" ELSE "pack"
  /\ UNCHANGED <<pdata, op, arg, loc, sy, sret, ret, bus, entry_hw, dev_pending,
                 repeat, retry, calls, fails>>

\* lines 235-238 with fpfd or r1_mod zero: a division by zero, which is
\* undefined.  One outcome: the divide raises an exception and the program
\* goes no further.
RatioDivTrap ==
  /\ pc = "ratio"
  /\ st.fpfd = 0 \/ st.r1_mod = 0
  /\ pc' = "fault"
  /\ UNCHANGED <<pdata, st, op, arg, loc, sy, sret, ret, bus, entry_hw,
                 dev_pending, repeat, retry, calls, fails>>

\* Another outcome of the same division: the divide yields 0 for a zero
\* divisor, and so does the remainder.
RatioDivZero ==
  /\ pc = "ratio"
  /\ st.fpfd = 0 \/ st.r1_mod = 0
  /\ st' = [st EXCEPT !.r0_fract = 0, !.r0_int = 0]
  /\ pc' = IF loc.mdiv > 0 THEN "tune" ELSE "pack"
  /\ UNCHANGED <<pdata, op, arg, loc, sy, sret, ret, bus, entry_hw, dev_pending,
                 repeat, retry, calls, fails>>

(* ---------------- adf4350_sync_config, lines 97-123 ---------------- *)
\* lines 99-101: the call, with driver state s
SyncBegin(s) ==
  /\ st' = s
  /\ sy' = [i |-> ADF4350_REG5, doublebuf |-> 0]
  /\ bus' = << >>
  /\ entry_hw' = s.regs_hw
  /\ retry' = (sret < 0 /\ s.regs = st.regs)
  /\ pc' = "sync"

\* lines 103-104 without the latch rule
NeedWrite_NoLatch(i, doublebuf) == st.regs_hw[i] # st.regs[i]

\* lines 103-104
NeedWrite(i, doublebuf) ==
  (st.regs_hw[i] # st.regs[i]) \/ ((i = ADF4350_REG0) /\ doublebuf # 0)

\* lines 106-112
Doublebuf(i, doublebuf) ==
  IF i \in {ADF4350_REG1, ADF4350_REG4} THEN 1 ELSE doublebuf

\* line 114
Val(i) == BitOr(st.regs[i], i)

\* lines 114-115, latching a buffered register at once with its own
\* register 0 word
Transfers_Eager(i, ok) ==
  IF i \in {ADF4350_REG1, ADF4350_REG4}
  THEN <<[tx |-> adf4350_write(Val(i)), ok |-> ok],
         [tx |-> adf4350_write(Val(ADF4350_REG0)), ok |-> ok]>>
  ELSE <<[tx |-> adf4350_write(Val(i)), ok |-> ok]>>

\* lines 114-115: the words the write of register i puts on the bus
Transfers(i, ok) == <<[tx |-> adf4350_write(Val(i)), ok |-> ok]>>

\* lines 116-118 with the shadow updated before the result is looked at
ShadowAfter_Early(i, ok) == [st.regs_hw EXCEPT ![i] = st.regs[i]]

\* lines 116-118 with line 118 left out for register 0
ShadowAfter_Not0(i, ok) ==
  IF ok /\ i # ADF4350_REG0
  THEN [st.regs_hw EXCEPT ![i] = st.regs[i]] ELSE st.regs_hw

\* lines 116-118: the shadow after the transfer of register i
ShadowAfter(i, ok) ==
  IF ok THEN [st.regs_hw EXCEPT ![i] = st.regs[i]] ELSE st.regs_hw

\* The device's double buffer: a received register 1/4 word takes effect
\* with the next register 0 word.
DevReceive(i) ==
  IF i \in {ADF4350_REG1, ADF4350_REG4} THEN TRUE
  ELSE IF i = ADF4350_REG0 THEN FALSE ELSE dev_pending

\* lines 117, 122 and the caller's code after the call: lines 294-303 of
\* adf4350_set_freq, line 328 of adf4350_setup, line 402 of
\* adf4350_out_altvoltage0_powerdown
SyncReturn(s, r) ==
  /\ st' = s
  /\ sret' = r
  /\ pc' = "idle"
  /\ ret' = CASE op = "set_freq" -> IF r < 0 THEN r ELSE Achieved(s)
              [] op = "powerdown" ->
                   BitAnd(s.regs[ADF4350_REG2], ADF4350_REG2_POWER_DOWN_EN)
              [] OTHER -> 0
  /\ UNCHANGED sy

\* lines 101, 120: the loop goes on to the next lower register, or ends
SyncAdvance(s, doublebuf) ==
  IF sy.i - 1 >= ADF4350_REG0
  THEN /\ st' = s
       /\ sy' = [i |-> sy.i - 1, doublebuf |-> doublebuf]
       /\ pc' = "sync"
       /\ UNCHANGED <<sret, ret>>
  ELSE SyncReturn(s, 0)

\* lines 103-104: register i equals its shadow and is not written
SyncSkip ==
  /\ pc = "sync"
  /\ ~NeedWrite(sy.i, sy.doublebuf)
  /\ SyncAdvance(st, sy.doublebuf)
  /\ UNCHANGED <<pdata, op, arg, loc, bus, entry_hw, dev_pending, repeat, retry,
                 calls, fails>>

\* lines 105-119 with a successful transfer
SyncWriteOk ==
  /\ pc = "sync"
  /\ NeedWrite(sy.i, sy.doublebuf)
  /\ bus' = bus \o Transfers(sy.i, TRUE)
  /\ dev_pending' = DevReceive(sy.i)
  /\ SyncAdvance([st EXCEPT !.val = Val(sy.i),
                             !.regs_hw = ShadowAfter(sy.i, TRUE)],
                 Doublebuf(sy.i, sy.doublebuf))
  /\ UNCHANGED <<pdata, op, arg, loc, entry_hw, repeat, retry, calls, fails>>

\* lines 105-117 with a failed transfer
SyncWriteFail ==
  /\ pc = "sync"
  /\ NeedWrite(sy.i, sy.doublebuf)
  /\ bus' = bus \o Transfers(sy.i, FALSE)
  /\ SyncReturn([st EXCEPT !.val = Val(sy.i),
                            !.regs_hw = ShadowAfter(sy.i, FALSE)], -1)
  /\ fails < MaxFails
  /\ fails' = fails + 1
  /\ UNCHANGED <<pdata, op, arg, loc, entry_hw, dev_pending, repeat, retry, calls>>

\* lines 243-294: the loops are left; reduce, pack and write out
PackStep ==
  /\ pc = "pack"
  /\ LET red == Reduce(st.r0_fract, st.r1_mod)
         s == [st EXCEPT !.r0_fract = red[1], !.r1_mod = red[2]]
     IN SyncBegin([s EXCEPT !.regs = PackRegs(s, loc.prescaler, loc.r_cnt)])
  /\ UNCHANGED <<pdata, op, arg, loc, sret, ret, dev_pending, repeat, calls, fails>>

(* ---------------- the other public operations ---------------- *)
\* lines 350-358 and 367-375: INT32_MAX only queries
Store(old, Hz) == IF Hz # INT32_MAX THEN Hz ELSE old

adf4350_out_altvoltage0_frequency_resolution ==
  /\ Called
  /\ \E Hz \in ChspcSet \cup {INT32_MAX} :
       /\ arg' = Hz
       /\ st' = [st EXCEPT !.chspc = Store(st.chspc, Hz)]
       /\ ret' = Store(st.chspc, Hz)
  /\ op' = "resolution"
  /\ UNCHANGED <<pdata, pc, loc, sy, sret, bus, entry_hw, dev_pending,
                 repeat, retry>>

adf4350_out_altvoltage0_refin_frequency ==
  /\ Called
  /\ \E Hz \in ClkinSet \cup {INT32_MAX} :
       /\ arg' = Hz
       /\ st' = [st EXCEPT !.clkin = Store(st.clkin, Hz)]
       /\ ret' = Store(st.clkin, Hz)
  /\ op' = "refin"
  /\ UNCHANGED <<pdata, pc, loc, sy, sret, bus, entry_hw, dev_pending,
                 repeat, retry>>

\* lines 386-403
adf4350_out_altvoltage0_powerdown ==
  /\ Called
  /\ op' = "powerdown"
  /\ \E pwd \in {0, 1, 2} :
       /\ arg' = pwd
       /\ IF pwd \in {0, 1}
          THEN /\ SyncBegin([st EXCEPT !.regs[ADF4350_REG2] =
                    IF pwd = 1
                    THEN BitOr(st.regs[ADF4350_REG2], ADF4350_REG2_POWER_DOWN_EN)
                    ELSE BitClear(st.regs[ADF4350_REG2],
                                  ADF4350_REG2_POWER_DOWN_EN)])
               /\ UNCHANGED <<sret, ret>>
          ELSE /\ ret' = BitAnd(st.regs[ADF4350_REG2],
                                ADF4350_REG2_POWER_DOWN_EN)
               /\ UNCHANGED <<st, pc, sy, sret, bus, entry_hw, retry>>
  /\ UNCHANGED <<pdata, loc, dev_pending, repeat>>

\* lines 314-329
adf4350_setup ==
  /\ pc = "start"
  /\ UNCHANGED <<calls, fails>>
  /\ repeat' = FALSE
  /\ SetFreqBegin([st EXCEPT !.clkin = Store(st.clkin, pdata.clkin),
                             !.chspc = Store(st.chspc, pdata.channel_spacing)],
                  pdata.power_up_frequency, "setup")

Next ==
  \/ adf4350_setup
  \/ adf4350_set_freq
  \/ adf4350_out_altvoltage0_frequency_resolution
  \/ adf4350_out_altvoltage0_refin_frequency
  \/ adf4350_out_altvoltage0_powerdown
  \/ SearchTighten
  \/ SearchWiden
  \/ SearchFound
  \/ RatioStep
  \/ RatioDivTrap
  \/ RatioDivZero
  \/ PackStep
  \/ SyncSkip
  \/ SyncWriteOk
  \/ SyncWriteFail

Spec == Init /\ [][Next]_vars

\* The program runs on: a call in progress takes its next step.
Running ==
  \/ SearchTighten \/ SearchWiden \/ SearchFound
  \/ RatioStep \/ RatioDivTrap \/ RatioDivZero
  \/ PackStep \/ SyncSkip \/ SyncWriteOk \/ SyncWriteFail

\* Frequency requests alone, over a bus that does not fail.
NextFreq ==
  \/ adf4350_setup
  \/ adf4350_set_freq
  \/ SearchTighten
  \/ SearchWiden
  \/ SearchFound
  \/ RatioStep
  \/ RatioDivTrap
  \/ RatioDivZero
  \/ PackStep
  \/ SyncSkip
  \/ SyncWriteOk

LiveSpec == Init /\ [][NextFreq]_vars /\ WF_vars(Running)

(* ======================= the claims ======================= *)

\* The last call of adf4350_sync_config has returned (none is in progress).
SyncIdle == pc # "sync"

Changed(j) == entry_hw[j] # st.regs[j]

OnlyReg4Changed ==
  /\ Changed(ADF4350_REG4)
  /\ \A j \in Regs \ {ADF4350_REG4} : ~Changed(j)

\* C1: a sync call in which no transfer failed, entered with register 1 or
\* register 4 different from its shadow, wrote register 0 last, after that
\* register, whether or not register 0 itself had changed; entered with only
\* register 4 different, it made exactly the two transfers 4 and 0.
C1_DoubleBufferLatch ==
  (SyncIdle /\ sret = 0) =>
    /\ (Changed(ADF4350_REG1) \/ Changed(ADF4350_REG4)) =>
         /\ Len(bus) >= 2
         /\ BusAddrs[Len(bus)] = ADF4350_REG0
         /\ \E k \in 1 .. Len(bus) - 1 :
              BusAddrs[k] \in {ADF4350_REG1, ADF4350_REG4}
    /\ OnlyReg4Changed => BusAddrs = <<ADF4350_REG4, ADF4350_REG0>>

C1_Witness ==
  /\ pc = "idle" /\ sret = 0
  /\ OnlyReg4Changed
  /\ BusAddrs = <<ADF4350_REG4, ADF4350_REG0>>

\* C2: the register addresses a sync call puts on the bus are strictly
\* decreasing, so each register is sent at most once and register 0, when it
\* is sent, is sent last.
C2_WriteOrdering ==
  /\ \A k \in 1 .. Len(bus) : BusAddrs[k] \in Regs
  /\ \A k \in 1 .. Len(bus) - 1 : BusAddrs[k] > BusAddrs[k + 1]

C2_Witness ==
  /\ pc = "idle"
  /\ BusAddrs = <<5, 4, 3, 2, 1, 0>>

\* C3: when a transfer fails the sync call returns the error at once: the
\* failed transfer is the last of the call, the shadow of every register
\* written before it equals the target, and the shadow of the failed register
\* and of every lower register is what it was when the call was entered.
C3_PartialFailure ==
  (pc = "idle" /\ sret < 0) =>
    /\ Len(bus) >= 1
    /\ ~bus[Len(bus)].ok
    /\ \A k \in 1 .. Len(bus) - 1 :
         /\ bus[k].ok
         /\ st.regs_hw[BusAddrs[k]] = st.regs[BusAddrs[k]]
    /\ \A j \in ADF4350_REG0 .. BusAddrs[Len(bus)] :
         st.regs_hw[j] = entry_hw[j]
    /\ op = "set_freq" => ret = sret

C3_Witness ==
  /\ pc = "idle" /\ sret < 0 /\ op = "set_freq"
  /\ Len(bus) >= 2
  /\ st.regs_hw[BusAddrs[Len(bus)]] # st.regs[BusAddrs[Len(bus)]]

\* C4: after a sync call that returned success the shadow equals the target
\* in all six registers; a sync call entered with the shadow equal to the
\* target makes no transfer; and a frequency request that repeats the
\* successful request before it makes no transfer.
C4_SyncIdempotence ==
  /\ (SyncIdle /\ sret = 0) => st.regs_hw = st.regs
  /\ (entry_hw = st.regs) => bus = << >>
  /\ (pc = "idle" /\ op = "set_freq" /\ repeat) => (bus = << >> /\ ret >= 0)

C4_Witness ==
  /\ pc = "idle" /\ op = "set_freq" /\ repeat /\ calls = 2
  /\ sret = 0 /\ bus = << >> /\ st.regs_hw = st.regs

\* C5: a frequency request below the minimum or above the maximum output
\* frequency returns an error in the same step, makes no transfer and leaves
\* the driver state, shadow included, as it was.
C5_OutOfRangeRejected ==
  [][(/\ calls' = calls + 1
      /\ op' = "set_freq"
      /\ (arg' < ADF4350_MIN_OUT_FREQ \/ arg' > ADF4350_MAX_OUT_FREQ))
     => (/\ pc' = "idle"
         /\ ret' < 0
         /\ UNCHANGED <<st, bus, dev_pending, sret>>)]_vars

C5_Witness ==
  /\ pc = "idle" /\ op = "set_freq" /\ ret < 0
  /\ arg < ADF4350_MIN_OUT_FREQ
  /\ st.regs_hw = st.regs

\* C6: the first sync call after start-up, when it succeeds, sends all six
\* registers, 5 down to 0: the initial shadow differs from every target.
C6_FirstSyncWritesAll ==
  (pc = "idle" /\ calls = 0 /\ sret = 0) =>
    /\ \A j \in Regs : Changed(j)
    /\ BusAddrs = <<5, 4, 3, 2, 1, 0>>

\* C7: the search never reaches the division of lines 235-238 with fpfd or
\* the modulus zero, and once the planner is through, r1_mod >= 1,
\* 0 <= r0_fract < r1_mod, and r1_mod = 1 when r0_fract = 0.
C7_FractionalRatio ==
  /\ pc = "ratio" => (st.fpfd # 0 /\ st.r1_mod # 0)
  /\ pc \in {"sync", "idle"} =>
       /\ st.r1_mod >= 1
       /\ 0 <= st.r0_fract /\ st.r0_fract < st.r1_mod
       /\ st.r0_fract = 0 => st.r1_mod = 1

\* C8: the search loops of every accepted request are left, with r0_int at
\* least 75 for a request above the prescaler threshold and at least 23
\* otherwise.
C8_SearchTerminates ==
  (pc = "tune") ~>
    (/\ pc = "pack"
     /\ st.r0_int >= (IF loc.req > ADF4350_MAX_FREQ_45_PRESC THEN 75 ELSE 23))

\* n / d rounded to the nearest integer, halves upwards.
RoundClosest(n, d) == (2 * n + d) \div (2 * d)

Abs(x) == IF x < 0 THEN -x ELSE x

\* C9: the frequency a successful request returns, times 2^r4_rf_div_sel, is
\* within one channel spacing st.chspc of the working frequency, and the
\* divide ratio is working frequency * modulus / fpfd rounded to the nearest.
C9_BoundedRounding ==
  (pc = "idle" /\ op = "set_freq" /\ ret >= 0) =>
    /\ Abs(ret * Pow2(st.r4_rf_div_sel) - loc.freq) <= st.chspc
    /\ LET modulus == st.fpfd \div loc.chspc
       IN (st.r0_int * st.r1_mod + st.r0_fract) * modulus
            = RoundClosest(loc.freq * modulus, st.fpfd) * st.r1_mod

\* C10: a sync call that repeats, with the same target, a call that a failed
\* transfer aborted, and that itself succeeds, leaves the shadow equal to the
\* target and no register 1/4 word on the device without a register 0 word
\* after it.
C10_Reconciliation ==
  (pc = "idle" /\ retry /\ sret = 0) =>
    /\ st.regs_hw = st.regs
    /\ ~dev_pending

====
